---- MODULE Spec2Model ----
(***************************************************************************)
(* Block-parallel kernels of the Triton tutorial notebooks: vector add,    *)
(* row-wise softmax (forward and backward), the naive row-by-column matmul *)
(* and the tiled matmul, each with its host-side launcher.                 *)
(*                                                                         *)
(* A launch is a state machine: the launcher allocates the output and      *)
(* creates one grid cell per program id; the cells then run in any order   *)
(* and any interleaving of their steps (a step is a group of loads, or the *)
(* final store); the launcher returns when every cell has finished.        *)
(*                                                                         *)
(* Numbers.  Buffers of vector add and matmul hold integers and +, * are   *)
(* exact; the one explicit conversion of the code, accumulator.to(float16),*)
(* is modelled by what it does to an integer (ToFloat16).  Softmax buffers *)
(* hold exact rationals <<n, d>>; tl.exp is modelled on integer arguments  *)
(* as a power of ExpBase, and -float('inf') by the value NegInf.           *)
(*                                                                         *)
(* Memory.  A masked-in lane whose offset lies past the end of its buffer  *)
(* reads memory the launch does not own: either that memory is mapped and  *)
(* the lane reads junk, or it is not and the launch faults.  Both are      *)
(* outcomes; which one holds is fixed per behaviour (mapped, junk).        *)
(***************************************************************************)
EXTENDS Integers, Sequences, FiniteSets, TLC

(***************************************************************************)
(* Program constants                                                       *)
(***************************************************************************)
BLOCK_SIZE_X == 16
BLOCK_SIZE_Y == 16
BLOCK_SIZE_K == 32
ADD_BLOCK_SIZE == 1024

(***************************************************************************)
(* Bounds of the model                                                     *)
(***************************************************************************)
\* how far past a multiple of the block size the large extents reach
TailRows == 1
TailCols == 1
TailInner == 1
TailElements == 1
\* softmax shapes: 1..MaxSoftmaxRows rows of 1..MaxSoftmaxCols columns
MaxSoftmaxRows == 2
MaxSoftmaxCols == 3
\* row r of a softmax input is row 0 plus r * RowShift
RowShift == 1
\* stand-in for e in tl.exp on integer arguments
ExpBase == 2

(***************************************************************************)
(* Library functions used by the launchers                                 *)
(***************************************************************************)
cdiv(a, b) == (a + b - 1) \div b

RECURSIVE pow2_at_least(_, _)
pow2_at_least(n, p) == IF p >= n THEN p ELSE pow2_at_least(n, 2 * p)

next_power_of_2(n) == pow2_at_least(n, 1)

RECURSIVE Pow(_, _)
Pow(b, e) == IF e = 0 THEN 1 ELSE b * Pow(b, e - 1)

(***************************************************************************)
(* State                                                                   *)
(***************************************************************************)
VARIABLES
    kernel,     \* which launcher was called
    x_rows, x_cols, y_rows, y_cols,   \* the shapes the launcher unpacks
    X, Y,       \* the caller's input tensors, flat and row-major
    y_ptr,      \* the buffer the kernel receives as its second input
    output,     \* the output tensor, <<>> until the launcher allocates it
    phase,      \* "called", "running", "done" (returned) or "fault"
    pc,         \* per grid cell: "load"/"loop", "store", "done"
    regs,       \* per grid cell: the values it holds between its steps
    writers,    \* per output offset: the grid cells that stored to it
    oob,        \* [x, y, out]: some masked-in lane addressed past that buffer
    mapped,     \* whether memory past the end of a buffer can be read
    junk,       \* what uninitialised or foreign memory holds
    relaunched, \* whether this is a second call of the launcher on these inputs
    previous    \* the output the previous call returned, <<>> if none

vars == <<kernel, x_rows, x_cols, y_rows, y_cols, X, Y, y_ptr, output, phase,
          pc, regs, writers, oob, mapped, junk, relaunched, previous>>

shape == <<x_rows, x_cols, y_rows, y_cols>>
inputs == <<kernel, x_rows, x_cols, y_rows, y_cols, X, Y, mapped, junk>>
calls == <<relaunched, previous>>

(***************************************************************************)
(* Masked load and store                                                   *)
(***************************************************************************)
\* f as the explicit table of its values: f @@ <<>> equals f
Table(f) == f @@ <<>>

\* the element of a set of one element; in Only({e(x) : x \in {v}}) the value
\* of v is computed once, however often e uses it
Only(S) == CHOOSE r \in S : TRUE

\* a buffer of size elements is a function on 0 .. size - 1
InBounds(o, size) == 0 <= o /\ o < size

\* some lane whose mask is true addresses an offset outside the buffer
OutOfBounds(size, offs, mask) ==
    \E l \in DOMAIN offs : mask[l] /\ ~InBounds(offs[l], size)

\* tl.load(ptr + offs, mask=mask, other=other) from a buffer of size elements
load(buf, size, offs, mask, other) ==
    [l \in DOMAIN offs |->
        IF ~mask[l] THEN other
        ELSE IF InBounds(offs[l], size) THEN buf[offs[l]]
        ELSE junk]

\* tl.store(ptr + offs, vals, mask=mask): the lanes lo..hi-1, in lane order
RECURSIVE store_lanes(_, _, _, _, _, _, _)
store_lanes(buf, size, offs, vals, mask, lo, hi) ==
    IF hi <= lo THEN buf
    ELSE IF hi = lo + 1
    THEN IF mask[lo] /\ InBounds(offs[lo], size)
         THEN [buf EXCEPT ![offs[lo]] = vals[lo]]
         ELSE buf
    ELSE \* the lower lanes first, then the upper lanes on their result
         Only({Only({store_lanes(left, size, offs, vals, mask, mid, hi) :
                       left \in {store_lanes(buf, size, offs, vals, mask, lo, mid)}}) :
               mid \in {(lo + hi) \div 2}})

store(buf, size, offs, vals, mask) ==
    store_lanes(buf, size, offs, vals, mask, 0, Cardinality(DOMAIN offs))

\* the offsets a store writes
StoredOffsets(offs, mask) == {offs[l] : l \in {m \in DOMAIN offs : mask[m]}}

Record(w, c, offs, mask) ==
    Only({[o \in DOMAIN w |-> IF o \in S THEN w[o] \cup {c} ELSE w[o]] :
            S \in {StoredOffsets(offs, mask)}})

(***************************************************************************)
(* Exact rationals <<n, d>>, d > 0 and in lowest terms; NegInf is -inf      *)
(***************************************************************************)
RECURSIVE GCD(_, _)
gcd_of(p) == IF p[2] = 0 THEN p[1] ELSE GCD(p[2], p[1] % p[2])
GCD(a, b) == Only({gcd_of(p) : p \in {<<a, b>>}})

Abs(a) == IF a < 0 THEN -a ELSE a

\* the fraction p[1] / p[2] in lowest terms with a positive denominator
norm_of(p) ==
    LET g == GCD(Abs(p[1]), Abs(p[2]))
        s == IF p[2] < 0 THEN -1 ELSE 1
    IN  <<(s * p[1]) \div g, (s * p[2]) \div g>>

Norm(n, d) == Only({norm_of(p) : p \in {<<n, d>>}})

\* the fill of a sum reduction used for the maximum
zero_fill == <<0, 1>>

NegInf == <<-1, 0>>
ToR(n) == <<n, 1>>
\* sum, product and quotient of the two rationals p[1] and p[2]
add_of(p) == Norm(p[1][1] * p[2][2] + p[2][1] * p[1][2], p[1][2] * p[2][2])
mul_of(p) == Norm(p[1][1] * p[2][1], p[1][2] * p[2][2])
div_of(p) == Norm(p[1][1] * p[2][2], p[1][2] * p[2][1])
neg_of(a) == <<-a[1], a[2]>>

RAdd(a, b) == Only({add_of(p) : p \in {<<a, b>>}})
RNeg(a) == Only({neg_of(p) : p \in {a}})
RMul(a, b) == Only({mul_of(p) : p \in {<<a, b>>}})
RDiv(a, b) == Only({div_of(p) : p \in {<<a, b>>}})
\* a - b where a may be -inf and b is finite
sub_of(p) == IF p[1] = NegInf THEN NegInf ELSE RAdd(p[1], RNeg(p[2]))
RSub(a, b) == Only({sub_of(p) : p \in {<<a, b>>}})
less_of(p) == p[1][1] * p[2][2] < p[2][1] * p[1][2]
RLess(a, b) == Only({less_of(p) : p \in {<<a, b>>}})

\* exp with exp(-inf) taken as 1
Exp_pad_one(a) ==
    Only({IF v = NegInf THEN ToR(1)
          ELSE IF v[1] >= 0 THEN <<Pow(ExpBase, v[1]), 1>>
          ELSE <<1, Pow(ExpBase, -v[1])>> : v \in {a}})

\* tl.exp on -inf and on integers
exp_of(a) ==
    IF a = NegInf THEN ToR(0)
    ELSE IF a[1] >= 0 THEN <<Pow(ExpBase, a[1]), 1>>
    ELSE <<1, Pow(ExpBase, -a[1])>>

Exp(a) == Only({exp_of(p) : p \in {a}})

\* tl.sum and tl.max over the lanes 0..n-1 of a row
sum_lanes(row, n) ==
    LET partial[m \in 0 .. n] ==
            IF m = 0 THEN ToR(0) ELSE RAdd(partial[m - 1], row[m - 1])
    IN  partial[n]

RSum(row) == sum_lanes(row, Cardinality(DOMAIN row))

\* the larger of the rationals p[1] and p[2]
larger_of(p) == IF RLess(p[1], p[2]) THEN p[2] ELSE p[1]

max_lanes(row, n) ==
    LET partial[m \in 1 .. n] ==
            IF m = 1 THEN row[0]
            ELSE Only({larger_of(p) : p \in {<<partial[m - 1], row[m - 1]>>}})
    IN  partial[n]

RMax(row) == max_lanes(row, Cardinality(DOMAIN row))

\* tl.sum over integer lanes 0..n-1
isum_lanes(row, n) ==
    LET partial[m \in 0 .. n] ==
            IF m = 0 THEN 0 ELSE partial[m - 1] + row[m - 1]
    IN  partial[n]

ISum(row) == isum_lanes(row, Cardinality(DOMAIN row))

(***************************************************************************)
(* accumulator.to(tl.float16) on an integer: round to nearest, ties to     *)
(* even, with 11 significant bits; +-2^16 stands for +-infinity            *)
(***************************************************************************)
RECURSIVE ulp_of(_, _)
ulp_of(a, u) == IF a < 2048 * u THEN u ELSE ulp_of(a, 2 * u)

RoundHalfEven(a, u) ==
    LET q == a \div u
        r == a % u
    IN  IF 2 * r < u THEN q * u
        ELSE IF 2 * r > u THEN (q + 1) * u
        ELSE IF q % 2 = 0 THEN q * u ELSE (q + 1) * u

ToFloat16(v) ==
    LET a == Abs(v)
        m == RoundHalfEven(a, ulp_of(a, 1))
        c == IF m > 65536 THEN 65536 ELSE m
    IN  IF v < 0 THEN -c ELSE c

(***************************************************************************)
(* Inputs                                                                  *)
(***************************************************************************)
\* the element at flat offset o of input pattern p; pattern 0 is arange
Gen(p, o) ==
    CASE p = 0 -> o
      [] p = 1 -> ((2 * o + (o \div 3)) % 5) - 1
      [] OTHER -> (o * o + 1) % 3

Tensor(p, n) == [o \in 0 .. n - 1 |-> Gen(p, o)]

Patterns == {<<0, 0>>, <<1, 2>>}

AddSizes ==
    {0, 1, 1000, ADD_BLOCK_SIZE, ADD_BLOCK_SIZE + TailElements,
     2 * ADD_BLOCK_SIZE + TailElements}

\* <<x_rows, x_cols, y_rows, y_cols>>
ArangeShape == <<4, 3, 3, 2>>

\* the last two have x_cols # y_rows
NaiveShapes ==
    {<<1, 1, 1, 1>>, <<2, 4 + TailInner, 4 + TailInner, 2>>,
     <<1, 2, 2, 3>>,
     <<2, 3, 2, 2>>, <<2, 2, 3, 1>>}

TiledShapes ==
    {<<1, 1, 1, 1>>,
     <<BLOCK_SIZE_X, BLOCK_SIZE_K, BLOCK_SIZE_K, BLOCK_SIZE_Y>>,
     <<BLOCK_SIZE_X + TailRows, 3, 3, 2>>,
     <<2, 3, 3, BLOCK_SIZE_Y + TailCols>>,
     <<4, BLOCK_SIZE_K + TailInner, BLOCK_SIZE_K + TailInner, 2>>,
     <<BLOCK_SIZE_X + TailRows, BLOCK_SIZE_K + TailInner,
       BLOCK_SIZE_K + TailInner, BLOCK_SIZE_Y + TailCols>>,
     <<4, 3, 2, 2>>, <<2, 2, 3, 2>>}

\* <<shape, <<pattern of X, pattern of Y>>>>
NaiveInputs == ({ArangeShape} \X {<<0, 0>>}) \cup (NaiveShapes \X Patterns)
TiledInputs == ({ArangeShape} \X {<<0, 0>>}) \cup (TiledShapes \X Patterns)

XVals == {0, 1, 2}
DyPatterns == {0, 1, 2}

\* <<mapped, junk>>
Environments == {<<TRUE, -3>>, <<TRUE, 5>>, <<FALSE, 5>>}

InitCommon ==
    /\ y_ptr = <<>>
    /\ output = <<>>
    /\ phase = "called"
    /\ pc = <<>>
    /\ regs = <<>>
    /\ writers = <<>>
    /\ oob = [x |-> FALSE, y |-> FALSE, out |-> FALSE]
    /\ relaunched = FALSE
    /\ previous = <<>>
    /\ \E e \in Environments : mapped = e[1] /\ junk = e[2]

InitAdd ==
    /\ InitCommon
    /\ kernel = "add"
    /\ \E n \in AddSizes, p \in Patterns :
          /\ x_rows = 1 /\ x_cols = n /\ y_rows = 1 /\ y_cols = n
          /\ X = Tensor(p[1], n)
          /\ Y = Tensor(p[2], n)

SoftmaxRows(R, C, base) ==
    [o \in 0 .. R * C - 1 |-> ToR(base[o % C] + (o \div C) * RowShift)]

InitSoftmax ==
    /\ InitCommon
    /\ kernel \in {"softmax_fwd", "softmax_bwd"}
    /\ \E R \in 1 .. MaxSoftmaxRows, C \in 1 .. MaxSoftmaxCols :
          /\ x_rows = R /\ x_cols = C /\ y_rows = R /\ y_cols = C
          /\ \E base \in [0 .. C - 1 -> XVals] : X = SoftmaxRows(R, C, base)
          /\ IF kernel = "softmax_fwd" THEN Y = <<>>
             ELSE \E q \in DyPatterns :
                     Y = [o \in 0 .. R * C - 1 |-> ToR(Gen(q, o + q) - 1)]

InitMatmul ==
    /\ InitCommon
    /\ kernel \in {"matmul_naive", "matmul_tiled"}
    /\ \E i \in NaiveInputs \cup TiledInputs :
          /\ kernel = "matmul_naive" => i \in NaiveInputs
          /\ kernel = "matmul_tiled" => i \in TiledInputs
          /\ x_rows = i[1][1] /\ x_cols = i[1][2]
          /\ y_rows = i[1][3] /\ y_cols = i[1][4]
          /\ X = Tensor(i[2][1], i[1][1] * i[1][2])
          /\ Y = Tensor(i[2][2], i[1][3] * i[1][4])

Init == InitAdd \/ InitSoftmax \/ InitMatmul

(***************************************************************************)
(* Launchers                                                               *)
(***************************************************************************)
n_elements == x_rows * x_cols

\* the launch grid, as the set of program ids <<axis 0, axis 1>>
Grid ==
    CASE kernel = "add" ->
            (0 .. cdiv(n_elements, ADD_BLOCK_SIZE) - 1) \X {0}
      [] kernel \in {"softmax_fwd", "softmax_bwd"} ->
            (0 .. x_rows - 1) \X {0}
      [] kernel = "matmul_naive" ->
            (0 .. x_rows - 1) \X (0 .. y_cols - 1)
      [] kernel = "matmul_tiled" ->
            (0 .. cdiv(x_rows, BLOCK_SIZE_X) - 1)
               \X (0 .. cdiv(y_cols, BLOCK_SIZE_Y) - 1)

\* Y handed to the kernel as it is, without the transpose
not_transposed(buf, rows, cols) == buf

\* Y.T.contiguous()
Transposed(buf, rows, cols) ==
    [o \in 0 .. rows * cols - 1 |-> buf[(o % rows) * cols + (o \div rows)]]

\* torch.empty / torch.empty_like: uninitialised memory
Empty(n) ==
    [o \in 0 .. n - 1 |->
        IF kernel \in {"softmax_fwd", "softmax_bwd"} THEN ToR(junk) ELSE junk]

Zeros(n) == [o \in 0 .. n - 1 |-> 0]

\* an accumulator that is not initialised
junk_tile == [l \in 0 .. BLOCK_SIZE_X * BLOCK_SIZE_Y - 1 |-> junk]

ZeroTile == [l \in 0 .. BLOCK_SIZE_X * BLOCK_SIZE_Y - 1 |-> 0]

\* the extents of the three buffers
XSize == x_rows * x_cols
YSize == IF kernel = "softmax_fwd" THEN 0 ELSE y_rows * y_cols
OutputSize ==
    IF kernel \in {"matmul_naive", "matmul_tiled"} THEN x_rows * y_cols
    ELSE n_elements

\* the loop over k stops one chunk short when x_cols is no multiple
iterations_floor == x_cols \div BLOCK_SIZE_K

\* the loop over k taking one iteration for every column of X
iterations_per_column == x_cols

\* range(0, tl.cdiv(x_cols, BLOCK_SIZE_K))
iterations == cdiv(x_cols, BLOCK_SIZE_K)

\* where a grid cell starts
entry ==
    IF kernel # "matmul_tiled" THEN "load"
    ELSE IF iterations > 0 THEN "loop" ELSE "store"

\* what the launcher's allocation of the output can hold: zeros from
\* torch.zeros; from torch.empty junk, or what an earlier tensor left there
Allocations ==
    IF kernel = "matmul_tiled" THEN {Zeros(OutputSize)}
    ELSE {Empty(OutputSize)} \cup (IF relaunched THEN {previous} ELSE {})

\* the launcher up to and including the kernel launch
Launch ==
    /\ phase = "called"
    /\ phase' = "running"
    /\ \E fresh \in Allocations : output' = fresh
    /\ y_ptr' = IF kernel = "matmul_naive" THEN Transposed(Y, y_rows, y_cols)
                ELSE Y
    /\ pc' = [c \in Grid |-> entry]
    /\ regs' = [c \in Grid |->
                  IF kernel = "matmul_tiled"
                  THEN [k |-> 0, accumulator |-> ZeroTile, x_adv |-> 0, y_adv |-> 0]
                  ELSE <<>>]
    /\ writers' = [o \in 0 .. OutputSize - 1 |-> {}]
    /\ UNCHANGED <<inputs, oob, calls>>

\* the launcher's return, once every grid cell has finished
Return ==
    /\ phase = "running"
    /\ \A c \in DOMAIN pc : pc[c] = "done"
    /\ phase' = "done"
    /\ UNCHANGED <<inputs, y_ptr, output, pc, regs, writers, oob, calls>>

\* the caller calls the same launcher again on the same inputs; the memory
\* the launch does not own may have changed in between
Relaunch ==
    /\ phase = "done"
    /\ ~relaunched
    /\ relaunched' = TRUE
    /\ previous' = output
    /\ phase' = "called"
    /\ y_ptr' = <<>>
    /\ pc' = <<>>
    /\ regs' = <<>>
    /\ writers' = <<>>
    /\ \E j \in {junk, junk + 1} : junk' = j
    /\ UNCHANGED <<kernel, x_rows, x_cols, y_rows, y_cols, X, Y, mapped,
                   output, oob>>

(***************************************************************************)
(* What a cell's step does to the shared state                             *)
(***************************************************************************)
\* a group of loads by cell c: it faults, or c goes on with new registers
Loaded(c, bad_x, bad_y, next, r) ==
    /\ oob' = [oob EXCEPT !.x = @ \/ bad_x, !.y = @ \/ bad_y]
    /\ IF (bad_x \/ bad_y) /\ ~mapped
       THEN /\ phase' = "fault"
            /\ UNCHANGED <<pc, regs>>
       ELSE /\ pc' = [pc EXCEPT ![c] = next]
            /\ regs' = [regs EXCEPT ![c] = r]
            /\ UNCHANGED phase
    /\ UNCHANGED <<inputs, y_ptr, output, writers, calls>>

\* what the lanes of a store that address past the end of the output do to
\* the buffer the allocator placed right behind it
spill(buf, size, offs, vals, mask) ==
    store(buf, size, [l \in DOMAIN offs |-> offs[l] - OutputSize], vals, mask)

\* the buffers a store can reach: past the end of the output lies memory that
\* is no tensor of this call, or one of the caller's inputs
Reach(offs, mask) ==
    IF OutOfBounds(OutputSize, offs, mask) THEN {"output", "X", "Y"}
    ELSE {"output"}

\* the final store of cell c, which ends the cell
Stored(c, offs, vals, mask) ==
    /\ output' = store(output, OutputSize, offs, vals, mask)
    /\ \E behind \in Reach(offs, mask) :
          /\ X' = IF behind = "X" THEN spill(X, XSize, offs, vals, mask) ELSE X
          /\ Y' = IF behind = "Y" THEN spill(Y, YSize, offs, vals, mask) ELSE Y
    /\ writers' = Record(writers, c, offs, mask)
    /\ oob' = [oob EXCEPT !.out = @ \/ OutOfBounds(OutputSize, offs, mask)]
    /\ pc' = [pc EXCEPT ![c] = "done"]
    /\ regs' = [regs EXCEPT ![c] = <<>>]
    /\ UNCHANGED <<kernel, x_rows, x_cols, y_rows, y_cols, mapped, junk,
                   y_ptr, phase, calls>>

(***************************************************************************)
(* add_kernel                                                              *)
(***************************************************************************)
Lanes(n) == 0 .. n - 1

\* offsets without block_start
add_offsets_local(pid) == [l \in Lanes(ADD_BLOCK_SIZE) |-> l]

add_offsets(pid) == [l \in Lanes(ADD_BLOCK_SIZE) |-> pid * ADD_BLOCK_SIZE + l]

\* no lane masked out
add_mask_all(offsets) == [l \in DOMAIN offsets |-> TRUE]

\* the mask one element short
add_mask_short(offsets) ==
    [l \in DOMAIN offsets |-> offsets[l] < n_elements - 1]

add_mask(offsets) == [l \in DOMAIN offsets |-> offsets[l] < n_elements]

AddLoad(c) ==
    /\ kernel = "add" /\ phase = "running" /\ pc[c] = "load"
    /\ LET offsets == add_offsets(c[1])
           mask == add_mask(offsets)
       IN  Loaded(c, OutOfBounds(XSize, offsets, mask),
                  OutOfBounds(YSize, offsets, mask), "store",
                  [x |-> load(X, XSize, offsets, mask, junk),
                   y |-> load(y_ptr, YSize, offsets, mask, junk)])

AddStore(c) ==
    /\ kernel = "add" /\ phase = "running" /\ pc[c] = "store"
    /\ LET offsets == add_offsets(c[1])
           mask == add_mask(offsets)
           out == [l \in Lanes(ADD_BLOCK_SIZE) |-> regs[c].x[l] + regs[c].y[l]]
       IN  Stored(c, offsets, out, mask)

(***************************************************************************)
(* softmax_fwd_kernel and softmax_bwd_kernel                               *)
(***************************************************************************)
\* the power of two below the one the launcher takes
previous_power_of_2 == next_power_of_2(x_cols) \div 2

SOFTMAX_BLOCK_SIZE == next_power_of_2(x_cols)

\* row_start taken as pid * BLOCK_SIZE
row_offset_block_stride(pid) ==
    [l \in Lanes(SOFTMAX_BLOCK_SIZE) |-> pid * SOFTMAX_BLOCK_SIZE + l]

row_offset(pid) == [l \in Lanes(SOFTMAX_BLOCK_SIZE) |-> pid * x_cols + l]

\* no lane masked out
row_mask_all(pid, offs) == [l \in DOMAIN offs |-> TRUE]

row_mask(pid, offs) == [l \in DOMAIN offs |-> offs[l] < pid * x_cols + x_cols]

\* the forward computation on the loaded lanes
softmax_fwd_row(row) ==
    LET m == RMax(row)
        shifted == [l \in DOMAIN row |-> RSub(row[l], m)]
        num == [l \in DOMAIN row |-> Exp(shifted[l])]
        denom == RSum(num)
    IN  [l \in DOMAIN row |-> RDiv(num[l], denom)]

\* the backward computation without the gradient through the denominator
softmax_bwd_row_num_only(x_row, dy_row) ==
    LET s == softmax_fwd_row(x_row)
    IN  [l \in DOMAIN x_row |-> RMul(dy_row[l], s[l])]

\* the gradient with respect to the normalized row
normed_grad(x_row, dy_row) ==
    LET L == DOMAIN x_row
        m == RMax(x_row)
        x_normed == [l \in L |-> RSub(x_row[l], m)]
        num == [l \in L |-> Exp(x_normed[l])]
        denom == RSum(num)
        inverted == RDiv(ToR(1), denom)
        num_grad == [l \in L |-> RMul(dy_row[l], inverted)]
        inverted_grad == RSum([l \in L |-> RMul(dy_row[l], num[l])])
        denom_grad == RMul(RDiv(ToR(-1), RMul(denom, denom)), inverted_grad)
        num_grad_2 == [l \in L |-> RAdd(num_grad[l], RMul(ToR(1), denom_grad))]
    IN  [l \in L |-> RMul(num_grad_2[l], Exp(x_normed[l]))]

\* max_grad = tl.sum(-normed_grad)
max_grad(x_row, dy_row) ==
    RSum([l \in DOMAIN x_row |-> RNeg(normed_grad(x_row, dy_row)[l])])

\* the indicator set at the first lane that attains the maximum only
max_indicator_first(x_row) ==
    [l \in DOMAIN x_row |->
        IF x_row[l] = RMax(x_row) /\ \A m \in DOMAIN x_row : m < l => x_row[m] # x_row[l]
        THEN ToR(1) ELSE ToR(0)]

\* tl.where(x_row == tl.max(x_row, axis=0), 1.0, 0.0)
max_indicator(x_row) ==
    [l \in DOMAIN x_row |-> IF x_row[l] = RMax(x_row) THEN ToR(1) ELSE ToR(0)]

\* the backward computation on the loaded lanes
softmax_bwd_row(x_row, dy_row) ==
    LET x_grad == normed_grad(x_row, dy_row)
        x_grad_2 == [l \in DOMAIN x_row |->
                       RMul(max_grad(x_row, dy_row), max_indicator(x_row)[l])]
    IN  [l \in DOMAIN x_row |-> RAdd(x_grad[l], x_grad_2[l])]

SoftmaxFwdLoad(c) ==
    /\ kernel = "softmax_fwd" /\ phase = "running" /\ pc[c] = "load"
    /\ LET offs == row_offset(c[1])
           mask == row_mask(c[1], offs)
       IN  Loaded(c, OutOfBounds(XSize, offs, mask), FALSE, "store",
                  [row |-> load(X, XSize, offs, mask, NegInf)])

SoftmaxFwdStore(c) ==
    /\ kernel = "softmax_fwd" /\ phase = "running" /\ pc[c] = "store"
    /\ LET offs == row_offset(c[1])
       IN  Stored(c, offs, softmax_fwd_row(regs[c].row), row_mask(c[1], offs))

SoftmaxBwdLoad(c) ==
    /\ kernel = "softmax_bwd" /\ phase = "running" /\ pc[c] = "load"
    /\ LET offs == row_offset(c[1])
           mask == row_mask(c[1], offs)
       IN  Loaded(c, OutOfBounds(XSize, offs, mask), OutOfBounds(YSize, offs, mask),
                  "store",
                  [x_row |-> load(X, XSize, offs, mask, NegInf),
                   dy_row |-> load(y_ptr, YSize, offs, mask, ToR(0))])

SoftmaxBwdStore(c) ==
    /\ kernel = "softmax_bwd" /\ phase = "running" /\ pc[c] = "store"
    /\ LET offs == row_offset(c[1])
       IN  Stored(c, offs, softmax_bwd_row(regs[c].x_row, regs[c].dy_row),
                  row_mask(c[1], offs))

(***************************************************************************)
(* matmul_kernel, naive: one cell per (output row, output column)          *)
(***************************************************************************)
NAIVE_BLOCK_SIZE == next_power_of_2(x_cols)

x_row_offset(x_row_id) ==
    [l \in Lanes(NAIVE_BLOCK_SIZE) |-> x_row_id * x_cols + l]

x_mask(x_row_id, offs) ==
    [l \in DOMAIN offs |-> offs[l] < x_row_id * x_cols + x_cols]

\* y_col_start taken as y_col_id * y_cols
y_col_offset_cols(y_col_id) ==
    [l \in Lanes(NAIVE_BLOCK_SIZE) |-> y_col_id * y_cols + l]

y_col_offset(y_col_id) ==
    [l \in Lanes(NAIVE_BLOCK_SIZE) |-> y_col_id * y_rows + l]

y_mask(y_col_id, offs) ==
    [l \in DOMAIN offs |-> offs[l] < y_col_id * y_rows + y_rows]

\* the output offset without the column
output_offset_row(x_row_id, y_col_id) == x_row_id * y_cols

output_offset(x_row_id, y_col_id) == (x_row_id * y_cols) + y_col_id

NaiveLoad(c) ==
    /\ kernel = "matmul_naive" /\ phase = "running" /\ pc[c] = "load"
    /\ LET xo == x_row_offset(c[1])
           xm == x_mask(c[1], xo)
           yo == y_col_offset(c[2])
           ym == y_mask(c[2], yo)
       IN  Loaded(c, OutOfBounds(XSize, xo, xm), OutOfBounds(YSize, yo, ym), "store",
                  [x_row |-> load(X, XSize, xo, xm, 0), y_col |-> load(y_ptr, YSize, yo, ym, 0)])

NaiveStore(c) ==
    /\ kernel = "matmul_naive" /\ phase = "running" /\ pc[c] = "store"
    /\ LET prod == [l \in Lanes(NAIVE_BLOCK_SIZE) |->
                      regs[c].x_row[l] * regs[c].y_col[l]]
       IN  Stored(c, [l \in {0} |-> output_offset(c[1], c[2])],
                  [l \in {0} |-> ISum(prod)], [l \in {0} |-> TRUE])

(***************************************************************************)
(* matmul_kernel, tiled: one cell per BLOCK_SIZE_X x BLOCK_SIZE_Y tile     *)
(* Tiles are flat: lane r * width + c is element (r, c).                   *)
(***************************************************************************)
\* x_ptrs after the loop advanced them by adv
x_ptrs(x_pid, adv) ==
    [l \in Lanes(BLOCK_SIZE_X * BLOCK_SIZE_K) |->
        (x_pid * BLOCK_SIZE_X * x_cols + (l \div BLOCK_SIZE_K) * x_cols)
           + (l % BLOCK_SIZE_K) + adv]

\* y_ptrs after the loop advanced them by adv
y_ptrs(y_pid, adv) ==
    [l \in Lanes(BLOCK_SIZE_K * BLOCK_SIZE_Y) |->
        ((l \div BLOCK_SIZE_Y) * y_cols + (y_pid * BLOCK_SIZE_Y + (l % BLOCK_SIZE_Y)))
           + adv]

\* the mask of the first iteration taken in every iteration
a_mask_first(k) ==
    [l \in Lanes(BLOCK_SIZE_X * BLOCK_SIZE_K) |-> (l % BLOCK_SIZE_K) < x_cols]

\* mask=k_offsets[None, :] < x_cols - k * BLOCK_SIZE_K
a_mask(k) ==
    [l \in Lanes(BLOCK_SIZE_X * BLOCK_SIZE_K) |->
        (l % BLOCK_SIZE_K) < x_cols - k * BLOCK_SIZE_K]

\* mask=k_offsets[:, None] < y_rows - k * BLOCK_SIZE_K
b_mask(k) ==
    [l \in Lanes(BLOCK_SIZE_K * BLOCK_SIZE_Y) |->
        (l \div BLOCK_SIZE_Y) < y_rows - k * BLOCK_SIZE_K]

dot_lanes(a, b, r, c, n) ==
    LET partial[m \in 0 .. n] ==
            IF m = 0 THEN 0
            ELSE partial[m - 1]
                    + a[r * BLOCK_SIZE_K + (m - 1)] * b[(m - 1) * BLOCK_SIZE_Y + c]
    IN  partial[n]

\* tl.dot(a, b)
dot(a, b) ==
    [l \in Lanes(BLOCK_SIZE_X * BLOCK_SIZE_Y) |->
        dot_lanes(a, b, l \div BLOCK_SIZE_Y, l % BLOCK_SIZE_Y, BLOCK_SIZE_K)]

\* the row offsets multiplied by the tile width
output_ptrs_tile_stride(x_pid, y_pid) ==
    [l \in Lanes(BLOCK_SIZE_X * BLOCK_SIZE_Y) |->
        (x_pid * BLOCK_SIZE_X + (l \div BLOCK_SIZE_Y)) * BLOCK_SIZE_Y
           + (y_pid * BLOCK_SIZE_Y + (l % BLOCK_SIZE_Y))]

output_ptrs(x_pid, y_pid) ==
    [l \in Lanes(BLOCK_SIZE_X * BLOCK_SIZE_Y) |->
        (x_pid * BLOCK_SIZE_X + (l \div BLOCK_SIZE_Y)) * y_cols
           + (y_pid * BLOCK_SIZE_Y + (l % BLOCK_SIZE_Y))]

\* the output mask bounding the rows only
output_mask_rows(x_pid, y_pid) ==
    [l \in Lanes(BLOCK_SIZE_X * BLOCK_SIZE_Y) |->
        x_pid * BLOCK_SIZE_X + (l \div BLOCK_SIZE_Y) < x_rows]

\* the output mask with the two extents exchanged
output_mask_swapped(x_pid, y_pid) ==
    [l \in Lanes(BLOCK_SIZE_X * BLOCK_SIZE_Y) |->
        /\ x_pid * BLOCK_SIZE_X + (l \div BLOCK_SIZE_Y) < y_cols
        /\ y_pid * BLOCK_SIZE_Y + (l % BLOCK_SIZE_Y) < x_rows]

\* the output mask bounding the columns only
output_mask_cols(x_pid, y_pid) ==
    [l \in Lanes(BLOCK_SIZE_X * BLOCK_SIZE_Y) |->
        y_pid * BLOCK_SIZE_Y + (l % BLOCK_SIZE_Y) < y_cols]

output_mask(x_pid, y_pid) ==
    [l \in Lanes(BLOCK_SIZE_X * BLOCK_SIZE_Y) |->
        /\ x_pid * BLOCK_SIZE_X + (l \div BLOCK_SIZE_Y) < x_rows
        /\ y_pid * BLOCK_SIZE_Y + (l % BLOCK_SIZE_Y) < y_cols]

\* accumulator += result
accumulate(accumulator, result) ==
    [l \in DOMAIN accumulator |-> accumulator[l] + result[l]]

\* the body of the loop once a and b are loaded
loop_body(c, k, a, b, bad_x, bad_y) ==
    Loaded(c, bad_x, bad_y,
           IF k + 1 < iterations THEN "loop" ELSE "store",
           [k |-> k + 1,
            accumulator |-> accumulate(regs[c].accumulator, dot(a, b)),
            x_adv |-> regs[c].x_adv + BLOCK_SIZE_K,
            y_adv |-> regs[c].y_adv + BLOCK_SIZE_K * y_cols])

\* one iteration of the loop over k
TiledIter(c) ==
    /\ kernel = "matmul_tiled" /\ phase = "running" /\ pc[c] = "loop"
    /\ LET k == regs[c].k
           xp == x_ptrs(c[1], regs[c].x_adv)
           yp == y_ptrs(c[2], regs[c].y_adv)
       IN  \E a \in {Table(load(X, XSize, xp, a_mask(k), 0))},
              b \in {Table(load(y_ptr, YSize, yp, b_mask(k), 0))} :
               loop_body(c, k, a, b,
                         OutOfBounds(XSize, xp, a_mask(k)),
                         OutOfBounds(YSize, yp, b_mask(k)))

\* the cast and the masked store of the tile
TiledStore(c) ==
    /\ kernel = "matmul_tiled" /\ phase = "running" /\ pc[c] = "store"
    /\ Stored(c, output_ptrs(c[1], c[2]),
              [l \in DOMAIN regs[c].accumulator |-> ToFloat16(regs[c].accumulator[l])],
              output_mask(c[1], c[2]))

(***************************************************************************)
(* A grid cell run on its own, from its first load to its store            *)
(***************************************************************************)
\* the accumulator of tiled cell c after its first k loop iterations
RECURSIVE accumulator_after(_, _)
accumulator_after(c, k) ==
    IF k = 0 THEN ZeroTile
    ELSE accumulate(
            accumulator_after(c, k - 1),
            dot(Table(load(X, XSize, x_ptrs(c[1], (k - 1) * BLOCK_SIZE_K),
                           a_mask(k - 1), 0)),
                Table(load(y_ptr, YSize,
                           y_ptrs(c[2], (k - 1) * BLOCK_SIZE_K * y_cols),
                           b_mask(k - 1), 0))))

\* the values a cell holds once its loads are done
cell_loads(c) ==
    CASE kernel = "add" ->
            [x |-> load(X, XSize, add_offsets(c[1]),
                        add_mask(add_offsets(c[1])), junk),
             y |-> load(y_ptr, YSize, add_offsets(c[1]),
                        add_mask(add_offsets(c[1])), junk)]
      [] kernel = "softmax_fwd" ->
            [row |-> load(X, XSize, row_offset(c[1]),
                          row_mask(c[1], row_offset(c[1])), NegInf)]
      [] kernel = "softmax_bwd" ->
            [x_row |-> load(X, XSize, row_offset(c[1]),
                            row_mask(c[1], row_offset(c[1])), NegInf),
             dy_row |-> load(y_ptr, YSize, row_offset(c[1]),
                             row_mask(c[1], row_offset(c[1])), ToR(0))]
      [] kernel = "matmul_naive" ->
            [x_row |-> load(X, XSize, x_row_offset(c[1]),
                            x_mask(c[1], x_row_offset(c[1])), 0),
             y_col |-> load(y_ptr, YSize, y_col_offset(c[2]),
                            y_mask(c[2], y_col_offset(c[2])), 0)]
      [] kernel = "matmul_tiled" ->
            [accumulator |-> accumulator_after(c, iterations)]

\* the store of a cell that holds the values r: offsets, values and mask
cell_store(c, r) ==
    CASE kernel = "add" ->
            [offs |-> add_offsets(c[1]),
             vals |-> [l \in Lanes(ADD_BLOCK_SIZE) |-> r.x[l] + r.y[l]],
             mask |-> add_mask(add_offsets(c[1]))]
      [] kernel = "softmax_fwd" ->
            [offs |-> row_offset(c[1]),
             vals |-> softmax_fwd_row(r.row),
             mask |-> row_mask(c[1], row_offset(c[1]))]
      [] kernel = "softmax_bwd" ->
            [offs |-> row_offset(c[1]),
             vals |-> softmax_bwd_row(r.x_row, r.dy_row),
             mask |-> row_mask(c[1], row_offset(c[1]))]
      [] kernel = "matmul_naive" ->
            [offs |-> [l \in {0} |-> output_offset(c[1], c[2])],
             vals |-> [l \in {0} |->
                         ISum([m \in Lanes(NAIVE_BLOCK_SIZE) |->
                                  r.x_row[m] * r.y_col[m]])],
             mask |-> [l \in {0} |-> TRUE]]
      [] kernel = "matmul_tiled" ->
            [offs |-> output_ptrs(c[1], c[2]),
             vals |-> [l \in DOMAIN r.accumulator |-> ToFloat16(r.accumulator[l])],
             mask |-> output_mask(c[1], c[2])]

apply_store(buf, s) == store(buf, OutputSize, s.offs, s.vals, s.mask)

\* the cells of S run one after the other on buf, each from load to store
RECURSIVE run_cells(_, _)
run_cells(buf, S) ==
    IF S = {} THEN buf
    ELSE LET c == CHOOSE d \in S : TRUE
         IN  run_cells(apply_store(buf, cell_store(c, cell_loads(c))), S \ {c})

\* the output of the launch with its grid cells run one at a time
sequential_output ==
    run_cells(IF kernel = "matmul_tiled" THEN Zeros(OutputSize)
              ELSE Empty(OutputSize), Grid)

(***************************************************************************)
(* Specifications: one per notebook, and all launches together             *)
(***************************************************************************)
NextAdd ==
    \/ Launch
    \/ Return
    \/ \E c \in DOMAIN pc : AddLoad(c)
    \/ \E c \in DOMAIN pc : AddStore(c)

NextSoftmax ==
    \/ Launch
    \/ Return
    \/ \E c \in DOMAIN pc : SoftmaxFwdLoad(c)
    \/ \E c \in DOMAIN pc : SoftmaxFwdStore(c)
    \/ \E c \in DOMAIN pc : SoftmaxBwdLoad(c)
    \/ \E c \in DOMAIN pc : SoftmaxBwdStore(c)

NextMatmul ==
    \/ Launch
    \/ Return
    \/ \E c \in DOMAIN pc : NaiveLoad(c)
    \/ \E c \in DOMAIN pc : NaiveStore(c)
    \/ \E c \in DOMAIN pc : TiledIter(c)
    \/ \E c \in DOMAIN pc : TiledStore(c)

Next == NextAdd \/ NextSoftmax \/ NextMatmul

SpecAdd == InitAdd /\ [][NextAdd]_vars
SpecSoftmax == InitSoftmax /\ [][NextSoftmax]_vars
SpecMatmul == InitMatmul /\ [][NextMatmul]_vars
Spec == Init /\ [][Next]_vars

\* a launcher called twice on the same inputs; of the tiled matmul the
\* launches whose grid is a single row or column of tiles, of softmax the
\* inputs with fewer rows than the largest
InitRelaunch ==
    /\ Init
    /\ kernel = "matmul_tiled" => (x_rows <= BLOCK_SIZE_X \/ y_cols <= BLOCK_SIZE_Y)
    /\ kernel \in {"softmax_fwd", "softmax_bwd"} => x_rows < MaxSoftmaxRows

NextRelaunch == Next \/ Relaunch

SpecRelaunch == InitRelaunch /\ [][NextRelaunch]_vars

\* a step of grid cell c, whichever kernel it runs
CellStep(c) ==
    \/ AddLoad(c) \/ AddStore(c)
    \/ SoftmaxFwdLoad(c) \/ SoftmaxFwdStore(c)
    \/ SoftmaxBwdLoad(c) \/ SoftmaxBwdStore(c)
    \/ NaiveLoad(c) \/ NaiveStore(c)
    \/ TiledIter(c) \/ TiledStore(c)

\* the launcher goes on to its launch and to its return, and the device goes
\* on running grid cells while one of them has a step left
Fairness ==
    /\ WF_vars(Launch)
    /\ WF_vars(Return)
    /\ WF_vars(\E c \in DOMAIN pc : CellStep(c))

\* the launches checked under fair scheduling: every kernel, on mapped and
\* on unmapped surroundings; of the tiled matmul the grids that are a single
\* row or column of tiles, of the naive matmul the grids of at most two rows;
\* the values are those of one input pattern (of softmax the inputs whose
\* first row is zero), which no guard depends on
InitFair ==
    /\ Init
    /\ junk > 0
    /\ kernel = "matmul_tiled" => (x_rows <= BLOCK_SIZE_X \/ y_cols <= BLOCK_SIZE_Y)
    /\ kernel = "matmul_naive" => x_rows <= 2
    /\ IF kernel \in {"softmax_fwd", "softmax_bwd"}
       THEN /\ \A o \in 0 .. x_cols - 1 : X[o] = ToR(0)
            /\ kernel = "softmax_bwd" => Y[0] = ToR(Gen(0, 0) - 1)
       ELSE X = Tensor(0, XSize) /\ Y = Tensor(0, y_rows * y_cols)

SpecFair == InitFair /\ [][Next]_vars /\ Fairness

(***************************************************************************)
(* References the notebooks compare against                                *)
(***************************************************************************)
IsMatmul == kernel \in {"matmul_naive", "matmul_tiled"}

\* output_torch = x @ y, element (i, j): the sum over the first n inner indices
RECURSIVE inner_sum(_, _, _)
inner_sum(i, j, n) ==
    IF n = 0 THEN 0
    ELSE inner_sum(i, j, n - 1) + X[i * x_cols + (n - 1)] * Y[(n - 1) * y_cols + j]

Reference(i, j) == inner_sum(i, j, x_cols)

\* the true columns of row r of a softmax buffer
true_row(buf, r) == [i \in 0 .. x_cols - 1 |-> buf[r * x_cols + i]]

\* F.softmax(x, dim=-1) on row r, without the shift by the maximum
softmax_reference(r) ==
    LET e == [i \in 0 .. x_cols - 1 |-> Exp(X[r * x_cols + i])]
        total == RSum(e)
    IN  [i \in 0 .. x_cols - 1 |-> RDiv(e[i], total)]

\* the Jacobian-vector product of softmax on row r with upstream gradient Y
jvp_reference(r) ==
    LET s == softmax_reference(r)
        dy == true_row(Y, r)
        t == RSum([i \in 0 .. x_cols - 1 |-> RMul(dy[i], s[i])])
    IN  [i \in 0 .. x_cols - 1 |-> RMul(s[i], RSub(dy[i], t))]

Returned == phase = "done"
Finished(c) == phase \in {"running", "done"} /\ c \in DOMAIN pc /\ pc[c] = "done"

(***************************************************************************)
(* Tiled matmul against the reference                                      *)
(***************************************************************************)
\* C1 as stated: once every grid cell of the tiled matmul has run on X (MxK)
\* and Y (KxN), output[i][j] equals the exact sum over k of X[i][k] * Y[k][j].
TiledEqualsReference ==
    (kernel = "matmul_tiled" /\ x_cols = y_rows /\ Returned) =>
        \A i \in 0 .. x_rows - 1, j \in 0 .. y_cols - 1 :
            output[i * y_cols + j] = Reference(i, j)

\* C1: once every grid cell of the tiled matmul has run on X (MxK) and Y
\* (KxN), output[i][j] is the exact sum over k of X[i][k] * Y[k][j] rounded to
\* float16, for every M, K, N; it is the exact sum when that sum is an
\* integer of magnitude at most 2048.
TiledEqualsRoundedReference ==
    (kernel = "matmul_tiled" /\ x_cols = y_rows /\ Returned) =>
        \A i \in 0 .. x_rows - 1, j \in 0 .. y_cols - 1 :
            /\ output[i * y_cols + j] = ToFloat16(Reference(i, j))
            /\ Abs(Reference(i, j)) <= 2048 =>
                  output[i * y_cols + j] = Reference(i, j)

\* a returned launch with partial tiles along all three extents, where the
\* cast changed an element and left another one exact
TiledRoundedWitness ==
    /\ kernel = "matmul_tiled" /\ Returned
    /\ x_rows % BLOCK_SIZE_X # 0 /\ y_cols % BLOCK_SIZE_Y # 0
    /\ x_cols = y_rows /\ x_cols > BLOCK_SIZE_K /\ x_cols % BLOCK_SIZE_K # 0
    /\ output[x_rows * y_cols - 1] = ToFloat16(Reference(x_rows - 1, y_cols - 1))
    /\ output[x_rows * y_cols - 1] # Reference(x_rows - 1, y_cols - 1)
    /\ output[0] = Reference(0, 0)

(***************************************************************************)
(* Vector add                                                              *)
(***************************************************************************)
\* C2: once the ceil(N/S) grid cells of add(x, y) have run, output[i] is
\* x[i] + y[i] for every i in [0, N), also when N is no multiple of S.
AddCorrect ==
    (kernel = "add" /\ Returned) =>
        \A i \in 0 .. n_elements - 1 : output[i] = X[i] + Y[i]

\* the notebook's case: 1000 elements, one partially masked cell
AddWitness ==
    /\ kernel = "add" /\ Returned
    /\ n_elements = 1000 /\ DOMAIN pc = {<<0, 0>>}
    /\ output[999] = X[999] + Y[999] /\ output[999] # junk

(***************************************************************************)
(* Write partitioning                                                      *)
(***************************************************************************)
\* C3: in every launch of vector add, naive matmul and tiled matmul, no two
\* distinct grid cells ever store to the same output offset, and once the
\* launch has returned every output offset was stored to by exactly one cell.
WritePartition ==
    (kernel \in {"add", "matmul_naive", "matmul_tiled"}) =>
        /\ \A o \in DOMAIN writers : Cardinality(writers[o]) <= 1
        /\ ~oob.out
        /\ Returned => \A o \in DOMAIN writers : Cardinality(writers[o]) = 1

\* a returned tiled launch of several cells whose tiles are cut by both edges
WritePartitionWitness ==
    /\ kernel = "matmul_tiled" /\ Returned
    /\ Cardinality(DOMAIN pc) = 4
    /\ x_rows % BLOCK_SIZE_X # 0 /\ y_cols % BLOCK_SIZE_Y # 0
    /\ writers[0] = {<<0, 0>>}
    /\ writers[x_rows * y_cols - 1] = {<<1, 1>>}

(***************************************************************************)
(* Loads of the tiled matmul                                               *)
(***************************************************************************)
\* C4: in the tiled matmul, for every M, K, N, every lane of every load of X
\* whose mask is true addresses an offset in [0, M*K), and every lane of every
\* load of Y whose mask is true addresses an offset in [0, K*N).
TiledLoadsInBounds ==
    (kernel = "matmul_tiled" /\ x_cols = y_rows) => ~oob.x /\ ~oob.y

(***************************************************************************)
(* Shape mismatch                                                          *)
(***************************************************************************)
\* C5: when matmul(X, Y) is called with X columns different from Y rows, no
\* grid cell is launched and no output element is written.
ShapeMismatchFailsFast ==
    (IsMatmul /\ x_cols # y_rows) =>
        /\ pc = <<>>
        /\ \A o \in DOMAIN writers : writers[o] = {}

(***************************************************************************)
(* Softmax                                                                 *)
(***************************************************************************)
\* C6: for every row, the value softmax_bwd_kernel stores at true column i is
\* s[i] * (dy[i] - sum over the true columns j of dy[j] * s[j]), s being the
\* exact softmax of the row; the masked lanes add nothing to the reductions.
BackwardIsJvp ==
    kernel = "softmax_bwd" =>
        \A r \in 0 .. x_rows - 1 :
            Finished(<<r, 0>>) => true_row(output, r) = jvp_reference(r)

\* a returned backward launch on rows with a padded lane and a gradient that
\* is not zero
BackwardIsJvpWitness ==
    /\ kernel = "softmax_bwd" /\ Returned
    /\ x_rows = 2 /\ x_cols = 3 /\ SOFTMAX_BLOCK_SIZE = 4
    /\ true_row(output, 1) = jvp_reference(1)
    /\ output[3] # ToR(0)

\* C7: for every row of a softmax_fwd launch the values stored for the C true
\* columns sum to exactly 1; the padded lanes between C and BLOCK_SIZE add 0
\* to the denominator and are not stored.
ForwardRowSumsToOne ==
    kernel = "softmax_fwd" =>
        \A r \in 0 .. x_rows - 1 :
            LET c == <<r, 0>>
            IN  /\ Finished(c) => RSum(true_row(output, r)) = ToR(1)
                /\ (phase = "running" /\ pc[c] = "store") =>
                      \A l \in x_cols .. SOFTMAX_BLOCK_SIZE - 1 :
                          /\ regs[c].row[l] = NegInf
                          /\ Exp(RSub(regs[c].row[l], RMax(regs[c].row))) = ToR(0)
                /\ \A o \in DOMAIN writers :
                      c \in writers[o] => (o \div x_cols) = r

\* a returned forward launch whose block has a padded lane, over rows that
\* are not constant
ForwardRowSumsToOneWitness ==
    /\ kernel = "softmax_fwd" /\ Returned
    /\ x_rows = 2 /\ x_cols = 3 /\ SOFTMAX_BLOCK_SIZE = 4
    /\ X[0] # X[1]
    /\ RSum(true_row(output, 0)) = ToR(1)
    /\ writers[3] = {<<1, 0>>}

\* C8: for every row the values softmax_bwd_kernel stores over the true
\* columns sum to 0, whether the row maximum is unique or tied.
BackwardRowSumsToZero ==
    kernel = "softmax_bwd" =>
        \A r \in 0 .. x_rows - 1 :
            Finished(<<r, 0>>) => RSum(true_row(output, r)) = ToR(0)

\* a returned backward launch on a row whose maximum is attained twice and
\* whose gradient is not zero
BackwardRowSumsToZeroWitness ==
    /\ kernel = "softmax_bwd" /\ Returned
    /\ x_cols = 3
    /\ X[0] = X[1] /\ RLess(X[2], X[0])
    /\ output[0] # ToR(0)
    /\ RSum(true_row(output, 0)) = ToR(0)

\* C9: softmax_fwd stores for a row x + c (c added to every element) the same
\* output row as for x.  Row r of the input is row 0 plus r * RowShift.
ForwardShiftInvariant ==
    kernel = "softmax_fwd" =>
        \A r \in 1 .. x_rows - 1 :
            (Finished(<<0, 0>>) /\ Finished(<<r, 0>>)) =>
                true_row(output, r) = true_row(output, 0)

\* a returned forward launch on a row and its shifted copy
ForwardShiftInvariantWitness ==
    /\ kernel = "softmax_fwd" /\ Returned
    /\ x_rows >= 2 /\ x_cols = 3
    /\ X[0] # X[2]
    /\ X[x_cols] = RAdd(X[0], ToR(RowShift)) /\ X[x_cols] # X[0]
    /\ true_row(output, 1) = true_row(output, 0)
    /\ output[0] # output[2]

(***************************************************************************)
(* The notebook's small integer case                                       *)
(***************************************************************************)
\* arange(12).reshape(4, 3) @ arange(6).reshape(3, 2), row-major
ArangeProduct == <<10, 13, 28, 40, 46, 67, 64, 94>>

ArangeCase ==
    /\ IsMatmul /\ shape = ArangeShape
    /\ X = Tensor(0, 12) /\ Y = Tensor(0, 6)

\* C10: for X = arange(12) as 4x3 and Y = arange(6) as 3x2, the naive and the
\* tiled matmul both return exactly [[10,13],[28,40],[46,67],[64,94]], which
\* is the reference product.
ArangeExact ==
    (ArangeCase /\ Returned) =>
        \A i \in 0 .. 3, j \in 0 .. 1 :
            /\ output[i * 2 + j] = ArangeProduct[i * 2 + j + 1]
            /\ output[i * 2 + j] = Reference(i, j)

\* the tiled launch of that case has returned with the last element in place
ArangeExactWitness ==
    /\ ArangeCase /\ Returned
    /\ kernel = "matmul_tiled"
    /\ output[7] = 94

(***************************************************************************)
(* Repeated launches                                                       *)
(***************************************************************************)
\* C11: calling the same launcher (add, softmax_fwd then Softmax.forward,
\* Softmax.backward, matmul) again on the same inputs returns an output
\* identical to the one the previous call returned, whatever the new
\* allocation held and whatever the memory around the buffers holds by then.
RelaunchSameOutput ==
    (relaunched /\ Returned) => output = previous

\* Softmax.forward has returned after softmax_fwd on the same x, its output
\* allocated over junk that differs from the first call's
RelaunchSameOutputWitness ==
    /\ kernel = "softmax_fwd" /\ Returned /\ relaunched
    /\ x_cols = 3 /\ X[0] # X[1]
    /\ junk = -2
    /\ output = previous /\ output[0] # ToR(junk)

AddMaskExact ==
    kernel = "add" =>
        /\ ~oob.x /\ ~oob.y /\ ~oob.out /\ phase # "fault"
        /\ \A c \in DOMAIN pc :
              /\ \A l \in Lanes(ADD_BLOCK_SIZE) :
                    add_mask(add_offsets(c[1]))[l]
                       <=> c[1] * ADD_BLOCK_SIZE + l < n_elements
              /\ \A o \in DOMAIN writers :
                    c \in writers[o]
                       <=> /\ pc[c] = "done"
                           /\ c[1] * ADD_BLOCK_SIZE <= o
                           /\ o < (c[1] + 1) * ADD_BLOCK_SIZE

\* the last cell of a launch has stored a partial block, where memory past
\* the buffers cannot be read
AddMaskExactWitness ==
    /\ kernel = "add" /\ Returned /\ ~mapped
    /\ n_elements > ADD_BLOCK_SIZE /\ n_elements % ADD_BLOCK_SIZE # 0
    /\ writers[n_elements - 1] = {<<n_elements \div ADD_BLOCK_SIZE, 0>>}
    /\ writers[0] = {<<0, 0>>}

(***************************************************************************)
(* Softmax rows                                                            *)
(***************************************************************************)
IsSoftmax == kernel \in {"softmax_fwd", "softmax_bwd"}

\* C15: with BLOCK_SIZE = next_power_of_2(x_cols) >= x_cols, the cell for row
\* r of softmax_fwd_kernel and of softmax_bwd_kernel loads only offsets in
\* [r*x_cols, (r+1)*x_cols), its other lanes holding the fill value, and
\* stores to exactly these offsets; it never touches row r+1 or memory past
\* the end of a buffer.  The backward kernel stores to the same offsets as the
\* forward kernel for the same row.
SoftmaxRowConfined ==
    (IsSoftmax /\ phase # "called") =>
        /\ SOFTMAX_BLOCK_SIZE >= x_cols
        /\ ~oob.x /\ ~oob.y /\ ~oob.out /\ phase # "fault"
        /\ \A c \in DOMAIN pc :
              /\ StoredOffsets(row_offset(c[1]), row_mask(c[1], row_offset(c[1])))
                    = c[1] * x_cols .. (c[1] + 1) * x_cols - 1
              /\ \A o \in DOMAIN writers :
                    c \in writers[o] <=> (pc[c] = "done" /\ o \div x_cols = c[1])
              /\ pc[c] = "store" =>
                    \A l \in Lanes(SOFTMAX_BLOCK_SIZE) :
                        IF kernel = "softmax_fwd"
                        THEN regs[c].row[l] =
                                (IF l < x_cols THEN X[c[1] * x_cols + l] ELSE NegInf)
                        ELSE /\ regs[c].x_row[l] =
                                   (IF l < x_cols THEN X[c[1] * x_cols + l] ELSE NegInf)
                             /\ regs[c].dy_row[l] =
                                   (IF l < x_cols THEN Y[c[1] * x_cols + l] ELSE ToR(0))

\* the backward cell of row 0 has stored its three columns from a block of
\* four lanes while the cell of row 1 still holds its loads
SoftmaxRowConfinedWitness ==
    /\ kernel = "softmax_bwd" /\ phase = "running"
    /\ x_rows = 2 /\ x_cols = 3 /\ SOFTMAX_BLOCK_SIZE = 4
    /\ pc[<<0, 0>>] = "done" /\ pc[<<1, 0>>] = "store"
    /\ writers[2] = {<<0, 0>>} /\ writers[3] = {}
    /\ regs[<<1, 0>>].x_row[3] = NegInf
    /\ ~mapped

(***************************************************************************)
(* The K loop of the tiled matmul                                          *)
(***************************************************************************)
\* the cells of a tiled launch that are in or past their loop
TiledCells ==
    IF kernel = "matmul_tiled" /\ x_cols = y_rows /\ phase \in {"running", "done"}
    THEN {c \in DOMAIN pc : pc[c] # "done"}
    ELSE {}

\* the rows and columns of the output that tile lanes of cell c stand for
TileRows(c) ==
    {r \in 0 .. BLOCK_SIZE_X - 1 : c[1] * BLOCK_SIZE_X + r < x_rows}
TileCols(c) ==
    {j \in 0 .. BLOCK_SIZE_Y - 1 : c[2] * BLOCK_SIZE_Y + j < y_cols}

\* C16: with x_cols = y_rows = K the loop of a tiled cell runs exactly
\* ceil(K / BLOCK_SIZE_K) iterations; at iteration t slab lane c is unmasked
\* if and only if t*BLOCK_SIZE_K + c < K and then addresses
\* X[row][t*BLOCK_SIZE_K + c] and Y[t*BLOCK_SIZE_K + c][col]; every inner index
\* k in [0,K) is unmasked in exactly one (iteration, lane) pair; masked lanes
\* load 0: after t iterations the accumulator of an output element holds the
\* sum over the inner indices below t*BLOCK_SIZE_K and below K.
KLoopCoverage ==
    /\ TiledCells # {} =>
          \A k \in 0 .. x_cols - 1 :
              Cardinality({p \in (0 .. iterations - 1) \X (0 .. BLOCK_SIZE_K - 1) :
                              /\ p[1] * BLOCK_SIZE_K + p[2] = k
                              /\ a_mask(p[1])[p[2]]
                              /\ b_mask(p[1])[p[2] * BLOCK_SIZE_Y]}) = 1
    /\ \A c \in TiledCells :
        LET t == regs[c].k
            done_k == IF t * BLOCK_SIZE_K < x_cols THEN t * BLOCK_SIZE_K ELSE x_cols
        IN  /\ (pc[c] = "store") <=> (t * BLOCK_SIZE_K >= x_cols)
            /\ pc[c] = "store" => (t - 1) * BLOCK_SIZE_K < x_cols
            /\ regs[c].x_adv = t * BLOCK_SIZE_K
            /\ regs[c].y_adv = t * BLOCK_SIZE_K * y_cols
            /\ \A r \in TileRows(c), l \in 0 .. BLOCK_SIZE_K - 1 :
                  /\ a_mask(t)[r * BLOCK_SIZE_K + l] <=> t * BLOCK_SIZE_K + l < x_cols
                  /\ x_ptrs(c[1], regs[c].x_adv)[r * BLOCK_SIZE_K + l]
                        = (c[1] * BLOCK_SIZE_X + r) * x_cols + t * BLOCK_SIZE_K + l
            /\ \A j \in TileCols(c), l \in 0 .. BLOCK_SIZE_K - 1 :
                  /\ b_mask(t)[l * BLOCK_SIZE_Y + j] <=> t * BLOCK_SIZE_K + l < x_cols
                  /\ y_ptrs(c[2], regs[c].y_adv)[l * BLOCK_SIZE_Y + j]
                        = (t * BLOCK_SIZE_K + l) * y_cols + c[2] * BLOCK_SIZE_Y + j
            /\ \A r \in TileRows(c), j \in TileCols(c) :
                  regs[c].accumulator[r * BLOCK_SIZE_Y + j]
                     = inner_sum(c[1] * BLOCK_SIZE_X + r, c[2] * BLOCK_SIZE_Y + j, done_k)

\* a cell between its two iterations, the second one partial, holding a
\* partial sum that is not zero
KLoopCoverageWitness ==
    /\ TiledCells # {}
    /\ x_cols > BLOCK_SIZE_K /\ x_cols < 2 * BLOCK_SIZE_K
    /\ \E c \in TiledCells :
          /\ pc[c] = "loop" /\ regs[c].k = 1
          /\ regs[c].accumulator[0] = inner_sum(c[1] * BLOCK_SIZE_X, c[2] * BLOCK_SIZE_Y,
                                                BLOCK_SIZE_K)
          /\ regs[c].accumulator[0] # 0

(***************************************************************************)
(* The output store of the tiled matmul                                    *)
(***************************************************************************)
\* C17: lane (r, c) of tiled cell (x_pid, y_pid) is stored if and only if
\* x_pid*BLOCK_SIZE_X + r < M and y_pid*BLOCK_SIZE_Y + c < N, and then at
\* offset (x_pid*BLOCK_SIZE_X + r)*N + (y_pid*BLOCK_SIZE_Y + c); a lane whose
\* column is N or more is never stored, so a cell stores to exactly the
\* output elements of its own tile, and no store lands outside [0, M*N).
TiledStoreMask ==
    (kernel = "matmul_tiled" /\ phase # "called") =>
        /\ ~oob.out
        /\ \A c \in DOMAIN pc :
              /\ \A o \in DOMAIN writers :
                    c \in writers[o]
                       <=> /\ pc[c] = "done"
                           /\ (o \div y_cols) \div BLOCK_SIZE_X = c[1]
                           /\ (o % y_cols) \div BLOCK_SIZE_Y = c[2]
              /\ pc[c] = "store" =>
                    \A r \in 0 .. BLOCK_SIZE_X - 1, j \in 0 .. BLOCK_SIZE_Y - 1 :
                        /\ output_mask(c[1], c[2])[r * BLOCK_SIZE_Y + j]
                              <=> /\ c[1] * BLOCK_SIZE_X + r < x_rows
                                  /\ c[2] * BLOCK_SIZE_Y + j < y_cols
                        /\ output_ptrs(c[1], c[2])[r * BLOCK_SIZE_Y + j]
                              = (c[1] * BLOCK_SIZE_X + r) * y_cols
                                   + (c[2] * BLOCK_SIZE_Y + j)
              /\ (pc[c] = "done" /\ x_cols = y_rows) =>
                    \A r \in TileRows(c), j \in TileCols(c) :
                        output[(c[1] * BLOCK_SIZE_X + r) * y_cols
                                  + (c[2] * BLOCK_SIZE_Y + j)]
                           = ToFloat16(Reference(c[1] * BLOCK_SIZE_X + r,
                                                 c[2] * BLOCK_SIZE_Y + j))

\* a returned launch whose second tile is cut by the column edge: the last
\* element of row 0 and the first of row 1, adjacent in memory, belong to
\* different cells
TiledStoreMaskWitness ==
    /\ kernel = "matmul_tiled" /\ Returned
    /\ x_rows > 1 /\ y_cols > BLOCK_SIZE_Y /\ y_cols < 2 * BLOCK_SIZE_Y
    /\ writers[y_cols - 1] = {<<0, 1>>}
    /\ writers[y_cols] = {<<0, 0>>}
    /\ output[y_cols] # 0

(***************************************************************************)
(* Ties for the row maximum in the backward pass                           *)
(***************************************************************************)
\* the true columns of row r that attain the row maximum
Tied(r) ==
    {i \in 0 .. x_cols - 1 :
        \A j \in 0 .. x_cols - 1 : ~RLess(X[r * x_cols + i], X[r * x_cols + j])}

\* C18 as stated: when two or more elements of a row tie for the row maximum,
\* the gradient softmax_bwd_kernel stores for that row deviates from the exact
\* softmax gradient.
TieDeviates ==
    kernel = "softmax_bwd" =>
        \A r \in 0 .. x_rows - 1 :
            (Finished(<<r, 0>>) /\ Cardinality(Tied(r)) >= 2) =>
                true_row(output, r) # jvp_reference(r)

\* C18: when two or more elements of a row tie for the row maximum, the
\* indicator of softmax_bwd_kernel selects every tied element and no other
\* lane, so each of them receives the full max_grad; max_grad, the negated
\* sum of normed_grad, is exactly 0, and the gradient stored for the row is
\* the exact softmax gradient.
TiePolicy ==
    kernel = "softmax_bwd" =>
        \A r \in 0 .. x_rows - 1 :
            LET c == <<r, 0>>
            IN  Cardinality(Tied(r)) >= 2 =>
                  /\ (phase = "running" /\ pc[c] = "store") =>
                        /\ \A l \in Lanes(SOFTMAX_BLOCK_SIZE) :
                              max_indicator(regs[c].x_row)[l]
                                 = (IF l \in Tied(r) THEN ToR(1) ELSE ToR(0))
                        /\ max_grad(regs[c].x_row, regs[c].dy_row) = ToR(0)
                  /\ Finished(c) => true_row(output, r) = jvp_reference(r)

\* a returned backward launch on a row of three whose first two elements tie
\* for the maximum, with a gradient that is not zero
TiePolicyWitness ==
    /\ kernel = "softmax_bwd" /\ Returned
    /\ x_cols = 3 /\ Tied(0) = {0, 1}
    /\ output[0] # ToR(0) /\ output[0] # output[1]
    /\ true_row(output, 0) = jvp_reference(0)

(***************************************************************************)
(* The padded lanes and the row maximum                                    *)
(***************************************************************************)
\* C19: for every row, the max reduction over the BLOCK_SIZE lanes of the
\* padded row equals the maximum over the C true columns only; no padded lane
\* equals that maximum, and in the backward kernel no padded lane is selected
\* by the max indicator.
PaddingNeverMax ==
    (IsSoftmax /\ phase = "running") =>
        \A c \in DOMAIN pc :
            pc[c] = "store" =>
                LET row == IF kernel = "softmax_fwd" THEN regs[c].row
                           ELSE regs[c].x_row
                IN  /\ \A i \in Tied(c[1]) : RMax(row) = X[c[1] * x_cols + i]
                    /\ Tied(c[1]) # {}
                    /\ \A l \in x_cols .. SOFTMAX_BLOCK_SIZE - 1 :
                          /\ row[l] # RMax(row)
                          /\ kernel = "softmax_bwd" => max_indicator(row)[l] = ToR(0)

\* a backward cell holding a row of three zeros in a block of four lanes,
\* where a fill of 0 would tie with the maximum
PaddingNeverMaxWitness ==
    /\ kernel = "softmax_bwd" /\ phase = "running"
    /\ x_cols = 3 /\ SOFTMAX_BLOCK_SIZE = 4
    /\ pc[<<0, 0>>] = "store"
    /\ X[0] = ToR(0) /\ X[1] = ToR(0) /\ X[2] = ToR(0)
    /\ RMax(regs[<<0, 0>>].x_row) = ToR(0)
    /\ max_indicator(regs[<<0, 0>>].x_row)[3] = ToR(0)

(***************************************************************************)
(* The accumulator of a tiled cell, step by step                           *)
(***************************************************************************)
\* cell c makes its store in this step
Stores(c) == pc[c] = "store" /\ pc'[c] = "done"

\* what a step of a tiled launch may do to cell c
AccumulatorStep(c) ==
    /\ regs'[c] # regs[c] =>
          \/ /\ pc[c] = "loop" /\ regs'[c].k = regs[c].k + 1
             /\ \A d \in DOMAIN pc \ {c} : regs'[d] = regs[d] /\ pc'[d] = pc[d]
             /\ output' = output
          \/ Stores(c)
    /\ Stores(c) =>
          /\ regs[c].k = iterations
          /\ \A r \in TileRows(c), j \in TileCols(c) :
                LET o == (c[1] * BLOCK_SIZE_X + r) * y_cols + (c[2] * BLOCK_SIZE_Y + j)
                IN  /\ output'[o] = ToFloat16(regs[c].accumulator[r * BLOCK_SIZE_Y + j])
                    /\ writers[o] = {} /\ writers'[o] = {c}
          /\ \A o \in DOMAIN output :
                c \notin writers'[o] => output'[o] = output[o]
    /\ ~Stores(c) =>
          \A o \in DOMAIN writers : (c \in writers'[o]) <=> (c \in writers[o])
    /\ pc[c] = "done" => pc'[c] = "done"

\* C20: in every cell of the tiled matmul the accumulator starts as all zeros
\* and is updated only by that cell's own loop iterations; the cell makes one
\* store to the output buffer, of its accumulator after the last iteration
\* over K, and the output changes in no other step, so no partial accumulator
\* value is ever in the output.
AccumulatorLifecycle ==
    [][kernel = "matmul_tiled" =>
          /\ (phase = "called" /\ phase' = "running") =>
                \A c \in DOMAIN pc' :
                    /\ regs'[c].k = 0
                    /\ \A l \in DOMAIN regs'[c].accumulator :
                          regs'[c].accumulator[l] = 0
          /\ (phase = "running") =>
                /\ \A c \in DOMAIN pc : AccumulatorStep(c)
                /\ output' # output => \E c \in DOMAIN pc : Stores(c)]_vars

\* one cell has stored its tile while another is between its two iterations
\* with a partial sum in its accumulator and zeros in its part of the output
AccumulatorLifecycleWitness ==
    /\ kernel = "matmul_tiled" /\ phase = "running"
    /\ <<0, 0>> \in DOMAIN pc /\ <<1, 1>> \in DOMAIN pc
    /\ pc[<<1, 1>>] = "done" /\ pc[<<0, 0>>] = "loop"
    /\ regs[<<0, 0>>].k = 1 /\ regs[<<0, 0>>].accumulator[1] # 0
    /\ output[1] = 0 /\ output[x_rows * y_cols - 1] # 0

(***************************************************************************)
(* The caller's inputs                                                     *)
(***************************************************************************)
\* C21: no step of any launch (add, softmax forward, softmax backward, naive
\* and tiled matmul) changes the caller's input tensors X and Y (x and dy for
\* the backward pass); the naive matmul hands the kernel the transpose of Y
\* as a buffer of its own and leaves the caller's Y as it was.
InputsReadOnly ==
    [][/\ X' = X
       /\ Y' = Y
       /\ (kernel = "matmul_naive" /\ phase' \in {"running", "done"}) =>
             \A i \in 0 .. y_rows - 1, j \in 0 .. y_cols - 1 :
                 y_ptr'[j * y_rows + i] = Y'[i * y_cols + j]]_vars

\* a naive matmul has returned: each cell stored, the kernel read the
\* transpose, and the caller's Y is a different sequence of values
InputsReadOnlyWitness ==
    /\ kernel = "matmul_naive" /\ Returned
    /\ y_rows > 1 /\ y_cols > 1
    /\ y_ptr # Y
    /\ \A o \in DOMAIN writers : writers[o] # {}

(***************************************************************************)
(* Padding lanes of the tiled matmul                                       *)
(***************************************************************************)
\* the memory around the buffers holds something else than it held in any
\* first call
OtherJunk == junk \notin {e[2] : e \in Environments}

\* C22: the loads of the tiled matmul are masked along K only, so the tile
\* rows from x_rows on and the tile columns from y_cols on are read from
\* outside X and Y; of two runs on the same inputs in which those lanes get
\* different values, every output element (i, j) with i < x_rows and
\* j < y_cols is the same.
PaddingNoninterference ==
    (kernel = "matmul_tiled" /\ Returned) =>
        /\ (x_rows % BLOCK_SIZE_X # 0 /\ x_cols > 0) => oob.x
        /\ (y_cols % BLOCK_SIZE_Y # 0 /\ y_rows > 0
              /\ y_rows <= iterations * BLOCK_SIZE_K) => oob.y
        /\ relaunched =>
              \A i \in 0 .. x_rows - 1, j \in 0 .. y_cols - 1 :
                  output[i * y_cols + j] = previous[i * y_cols + j]

\* the second run of a tile cut by both edges has returned; its padding
\* lanes read other values than the first run's, from outside both inputs
PaddingNoninterferenceWitness ==
    /\ kernel = "matmul_tiled" /\ Returned /\ relaunched
    /\ x_rows % BLOCK_SIZE_X # 0 /\ y_cols % BLOCK_SIZE_Y # 0
    /\ oob.x /\ oob.y
    /\ OtherJunk
    /\ output[x_rows * y_cols - 1] # 0

(***************************************************************************)
(* Termination                                                             *)
(***************************************************************************)
AllFinished == \A c \in DOMAIN pc : pc[c] = "done"

====
